---- MODULE Spec2Model ----
(***************************************************************************)
(* A model of the sampling and local linear prediction code of grf:        *)
(*   core/src/sampling/RandomSampler.cpp                                   *)
(*   core/src/prediction/LocalLinearPredictionStrategy.cpp (two revisions) *)
(* Real numbers are exact rationals <<numerator, denominator>>; the pseudo *)
(* random generator is a stream of raw outputs that is fixed by its seed.  *)
(***************************************************************************)
EXTENDS Integers, Sequences, FiniteSets, TLC

VARIABLES
  smp,      \* the RandomSampler instances: instance id -> its fields and call frame
  stream,   \* seed -> the raw outputs a generator seeded with it has produced so far
  script,   \* the calls a caller comparing two samplers makes on each of them
  ll        \* the LocalLinearPredictionStrategy call in progress

vars == <<smp, stream, script, ll>>

----------------------------------------------------------------------------
(* Bounds of the model *)

MaxRows == 3        \* rows of Data (and so the largest number of clusters)
MaxDraw == 6        \* largest max handed to draw
RawMax == 6         \* the generator yields raw outputs 0 .. RawMax - 1
MaxPool == 3        \* longest pool handed to subsample
MaxSpc == 2         \* largest samples_per_cluster
MaxSeed == 1        \* seeds 0 .. MaxSeed
MaxCalls == 2       \* calls recorded per instance when two instances are compared
MaxStream == 3      \* raw outputs recorded per seed when two instances are compared

----------------------------------------------------------------------------
(* Helpers on sequences and sets *)

Range(s) == {s[k] : k \in 1..Len(s)}

Distinct(s) == \A a, b \in 1..Len(s) : a # b => s[a] # s[b]

Count(s, x) == Cardinality({k \in 1..Len(s) : s[k] = x})

Min2(a, b) == IF a < b THEN a ELSE b

RECURSIVE SortedSeq(_)
SortedSeq(S) ==
  IF S = {} THEN <<>>
  ELSE LET m == CHOOSE x \in S : \A y \in S : x <= y
       IN <<m>> \o SortedSeq(S \ {m})

Swap(s, a, b) == [s EXCEPT ![a] = s[b], ![b] = s[a]]

Iota(n) == [k \in 1..n |-> k - 1]

SeqsUpTo(S, n) == UNION {[1..k -> S] : k \in 0..n}

----------------------------------------------------------------------------
(* Real-valued arguments: a fraction is <<numerator, denominator>> *)

Floor(f) == f[1] \div f[2]

Ceil(f) == (f[1] + f[2] - 1) \div f[2]

LeqOne(f) == f[1] <= f[2]

Fractions == {<<0, 1>>, <<1, 4>>, <<1, 2>>, <<3, 4>>, <<1, 1>>}

----------------------------------------------------------------------------
(* SamplingOptions: the clusters vector (a label per row, empty when        *)
(* clustering is off), the per-row sample weights (empty when uniform) and  *)
(* samples_per_cluster.                                                     *)

clustering_enabled(o) == Len(o.clusters) > 0

get_num_clusters(o) == Cardinality(Range(o.clusters))

get_cluster_map(o) ==
  [c \in Range(o.clusters) |->
     SortedSeq({r \in 0..(Len(o.clusters) - 1) : o.clusters[r + 1] = c})]

get_num_rows(s) == s.rows

ClusterVectors(n) ==
  {<<>>} \cup {cv \in [1..n -> 0..(n - 1)] :
                 \E k \in 1..n : Range(cv) = 0..(k - 1)}

WeightVectors(n) ==
  {<<>>} \cup {w \in [1..n -> {0, 1}] : \E r \in 1..n : w[r] > 0}

OptionSet(n) ==
  [clusters : ClusterVectors(n), weights : WeightVectors(n), spc : 1..MaxSpc]

----------------------------------------------------------------------------
(* RandomSampler::RandomSampler and the generator it owns *)

Raw == 0..(RawMax - 1)

Seeds == 0..MaxSeed

\* random_number_generator.seed(seed)
SeedGenerator(seed) == seed

Tracked(i) == smp[i].seed \in DOMAIN stream

\* The raw outputs vs are what instance i's generator yields next.
ReadOK(i, vs) ==
  /\ vs \in [1..Len(vs) -> Raw]
  /\ Tracked(i) =>
       /\ smp[i].pos + Len(vs) <= MaxStream
       /\ \A k \in 1..Len(vs) :
            smp[i].pos + k <= Len(stream[smp[i].seed]) =>
              vs[k] = stream[smp[i].seed][smp[i].pos + k]

StreamAfter(i, vs) ==
  IF Tracked(i)
  THEN [stream EXCEPT ![smp[i].seed] =
          IF smp[i].pos + Len(vs) > Len(@)
          THEN SubSeq(@, 1, smp[i].pos) \o vs
          ELSE @]
  ELSE stream

PosAfter(i, vs) == IF Tracked(i) THEN smp[i].pos + Len(vs) ELSE smp[i].pos

\* std::uniform_int_distribution<size_t>(a, b) applied to one raw output
UniformInt(raw, a, b) == a + (raw % (b - a + 1))

\* std::shuffle: element k is exchanged with one of the first k elements
RECURSIVE ShuffleFrom(_, _, _)
ShuffleFrom(s, vs, k) ==
  IF k > Len(s) THEN s
  ELSE ShuffleFrom(Swap(s, k, 1 + UniformInt(vs[k - 1], 0, k - 1)), vs, k + 1)

Shuffle(s, vs) == ShuffleFrom(s, vs, 2)

ShuffleReads(s) == IF Len(s) > 1 THEN Len(s) - 1 ELSE 0

NoCall == [op |-> "none", frac |-> <<0, 1>>, seq |-> <<>>, max |-> 0, skip |-> {}, n |-> 0]

NewSampler(seed, o, rows) ==
  [seed |-> SeedGenerator(seed), pos |-> 0, options |-> o, rows |-> rows,
   pc |-> "idle", call |-> NoCall, result |-> <<>>, oob |-> <<>>,
   pool |-> <<>>, max |-> 0, skip |-> {}, n |-> 0, i |-> 0, j |-> 0,
   temp |-> {}, weights |-> <<>>, clist |-> <<>>, k |-> 0, threw |-> FALSE,
   branch |-> "none", hist |-> <<>>]

\* The frame of a new call: the out-parameters are fresh, empty vectors.
Frame(s, call) ==
  [s EXCEPT !.call = call, !.result = <<>>, !.oob = <<>>, !.pool = <<>>,
            !.max = 0, !.skip = {}, !.n = 0, !.i = 0, !.j = 0, !.temp = {},
            !.weights = <<>>, !.clist = <<>>, !.k = 0, !.threw = FALSE,
            !.branch = "none"]

\* A compared sampler is driven through the script, call by call.
CanCall(i, call) ==
  /\ smp[i].pc = "idle"
  /\ smp[i].call = NoCall
  /\ Tracked(i) =>
       /\ Len(smp[i].hist) < Len(script)
       /\ script[Len(smp[i].hist) + 1] = call

Output(s) == [threw |-> s.threw, a |-> s.result, b |-> s.oob]

\* Instance i goes to frame s after its generator has yielded vs.
Goto(i, s, vs) ==
  /\ smp' = [smp EXCEPT ![i] = [s EXCEPT !.pos = PosAfter(i, vs)]]
  /\ stream' = StreamAfter(i, vs)
  /\ UNCHANGED <<script, ll>>

\* Instance i returns from its call (or leaves it by an exception) in frame s.
Return(i, s, vs) ==
  Goto(i, [s EXCEPT !.pc = "idle",
                    !.hist = IF Tracked(i)
                             THEN Append(@, [call |-> s.call, out |-> Output(s)])
                             ELSE @], vs)

----------------------------------------------------------------------------
(* RandomSampler::draw, draw_simple, draw_knuth *)

\* for (auto& skip_value : skip) if (draw >= skip_value) ++draw;
RECURSIVE SkipShiftFrom(_, _, _)
SkipShiftFrom(d, skipseq, k) ==
  IF k > Len(skipseq) THEN d
  ELSE SkipShiftFrom(IF d >= skipseq[k] THEN d + 1 ELSE d, skipseq, k + 1)

\* a slip: only values above a skipped value move up
SkipShiftAbove(d, skip) ==
  LET above == {x \in skip : d > x} IN d + Cardinality(above)

SkipShift(d, skip) == SkipShiftFrom(d, SortedSeq(skip), 1)

DrawDispatch(max, n) == IF n < max \div 2 THEN "draw_simple" ELSE "draw_knuth"

DrawArgs(max, skip, n) ==
  [NoCall EXCEPT !.op = "draw", !.max = max, !.skip = skip, !.n = n]

draw(i, max, skip, n) ==
  /\ CanCall(i, DrawArgs(max, skip, n))
  /\ LET call == DrawArgs(max, skip, n)
         s == [Frame(smp[i], call) EXCEPT !.max = max, !.skip = skip, !.n = n]
         branch == DrawDispatch(max, n)
     IN Goto(i, [s EXCEPT !.pc = branch, !.branch = branch,
                          !.result = IF branch = "draw_knuth"
                                     THEN [k \in 1..n |-> 0] ELSE <<>>], <<>>)

\* variant: the do-while goes on while the value is not selected yet
DrawSimpleBodyInverted(s, raw) ==
  LET d == SkipShift(UniformInt(raw, 0, s.max - 1 - Cardinality(s.skip)), s.skip)
  IN IF d \notin s.temp THEN s
     ELSE [s EXCEPT !.temp = @ \cup {d}, !.result = Append(@, d), !.i = @ + 1]

\* One pass of the do-while of draw_simple for the raw output raw.
DrawSimpleBody(s, raw) ==
  LET d == SkipShift(UniformInt(raw, 0, s.max - 1 - Cardinality(s.skip)), s.skip)
  IN IF d \in s.temp THEN s
     ELSE [s EXCEPT !.temp = @ \cup {d}, !.result = Append(@, d), !.i = @ + 1]

draw_simple_step(i) ==
  /\ smp[i].pc = "draw_simple"
  /\ IF smp[i].i < smp[i].n
     THEN \E raw \in Raw :
            /\ ReadOK(i, <<raw>>)
            /\ Goto(i, DrawSimpleBody(smp[i], raw), <<raw>>)
     ELSE Return(i, smp[i], <<>>)

\* One pass of the while loop of draw_knuth; u = raw / RawMax lies in [0, 1).
DrawKnuthBody(s, raw) ==
  LET size_no_skip == s.max - Cardinality(s.skip)
  IN IF (size_no_skip - s.j) * raw >= (s.n - s.i) * RawMax
     THEN [s EXCEPT !.j = @ + 1]
     ELSE [s EXCEPT !.result = [@ EXCEPT ![s.i + 1] = SkipShift(s.j, s.skip)],
                    !.j = @ + 1, !.i = @ + 1]

draw_knuth_step(i) ==
  /\ smp[i].pc = "draw_knuth"
  /\ IF smp[i].i < smp[i].n
     THEN \E raw \in Raw :
            /\ ReadOK(i, <<raw>>)
            /\ Goto(i, DrawKnuthBody(smp[i], raw), <<raw>>)
     ELSE Return(i, smp[i], <<>>)

----------------------------------------------------------------------------
(* RandomSampler::subsample (four arguments) *)

\* a slip: the size is rounded down
SubsampleSizeFloor(pool, f) == Floor(<<Len(pool) * f[1], f[2]>>)

\* (uint) std::ceil(samples.size() * sample_fraction)
SubsampleSize(pool, f) == Ceil(<<Len(pool) * f[1], f[2]>>)

\* oob_samples.resize(samples.size() - subsample_size) wraps around below zero
\* and std::vector::resize then throws std::length_error.
Subsample(pool, f, vs) ==
  LET shuffled_sample == Shuffle(pool, vs)
      subsample_size == SubsampleSize(pool, f)
  IN IF subsample_size > Len(pool)
     THEN [threw |-> TRUE, subsamples |-> <<>>, oob_samples |-> <<>>]
     ELSE [threw |-> FALSE,
           subsamples |-> SubSeq(shuffled_sample, 1, subsample_size),
           oob_samples |-> SubSeq(shuffled_sample, subsample_size + 1, Len(pool))]

SubsampleArgs(pool, f) ==
  [NoCall EXCEPT !.op = "subsample", !.seq = pool, !.frac = f]

subsample(i, pool, f) ==
  /\ CanCall(i, SubsampleArgs(pool, f))
  /\ \E vs \in [1..ShuffleReads(pool) -> Raw] :
       /\ ReadOK(i, vs)
       /\ LET call == SubsampleArgs(pool, f)
              r == Subsample(pool, f, vs)
          IN Return(i, [Frame(smp[i], call) EXCEPT !.pool = pool,
                          !.threw = r.threw, !.result = r.subsamples,
                          !.oob = r.oob_samples], vs)

----------------------------------------------------------------------------
(* RandomSampler::sample_clusters, sample, shuffle_and_split, draw_weighted *)

NumSamples(s) ==
  IF clustering_enabled(s.options) THEN get_num_clusters(s.options)
  ELSE get_num_rows(s)

\* size_t num_samples_inbag = (size_t) num_samples * sample_fraction;
NumSamplesInbag(num_samples, f) == Floor(<<num_samples * f[1], f[2]>>)

\* resize(n_all); iota; shuffle; resize(size) (new elements are zero)
ShuffleAndSplit(n_all, size, vs) ==
  LET shuffled == Shuffle(Iota(n_all), vs)
  IN [k \in 1..size |-> IF k <= n_all THEN shuffled[k] ELSE 0]

SampleClustersArgs(f) == [NoCall EXCEPT !.op = "sample_clusters", !.frac = f]

sample_clusters(i, f) ==
  /\ CanCall(i, SampleClustersArgs(f))
  /\ LET call == SampleClustersArgs(f)
         s == Frame(smp[i], call)
         num_samples == NumSamples(s)
         inbag == NumSamplesInbag(num_samples, f)
     IN IF s.options.weights = <<>>
        THEN \E vs \in [1..ShuffleReads(Iota(num_samples)) -> Raw] :
               /\ ReadOK(i, vs)
               /\ Return(i, [s EXCEPT !.result =
                                ShuffleAndSplit(num_samples, inbag, vs)], vs)
        ELSE Goto(i, [s EXCEPT !.pc = "draw_weighted", !.max = num_samples - 1,
                               !.n = inbag, !.weights = s.options.weights], <<>>)

RECURSIVE SumTo(_, _)
SumTo(w, k) == IF k = 0 THEN 0 ELSE w[k] + SumTo(w, k - 1)

\* std::discrete_distribution applied to one raw output: the first index whose
\* cumulative weight exceeds u * total, u = raw / RawMax
Discrete(raw, w) ==
  CHOOSE d \in 0..(Len(w) - 1) :
    /\ raw * SumTo(w, Len(w)) < SumTo(w, d + 1) * RawMax
    /\ \A e \in 0..(d - 1) : ~(raw * SumTo(w, Len(w)) < SumTo(w, e + 1) * RawMax)

\* temp has max + 1 bits: temp[draw] beyond them reads whatever is there.
TempReads(s, d) == IF d <= s.max THEN {d \in s.temp} ELSE BOOLEAN

DrawWeightedBody(s, d, selected) ==
  IF selected THEN s
  ELSE [s EXCEPT !.temp = @ \cup {d}, !.result = Append(@, d), !.i = @ + 1]

draw_weighted_step(i) ==
  /\ smp[i].pc = "draw_weighted"
  /\ IF smp[i].i < smp[i].n
     THEN \E raw \in Raw :
            /\ ReadOK(i, <<raw>>)
            /\ \E selected \in TempReads(smp[i], Discrete(raw, smp[i].weights)) :
                 Goto(i, DrawWeightedBody(smp[i], Discrete(raw, smp[i].weights),
                                          selected), <<raw>>)
     ELSE Return(i, smp[i], <<>>)

----------------------------------------------------------------------------
(* RandomSampler::sample_from_clusters *)

\* (double) options.get_samples_per_cluster() / cluster_obs.size()
ClusterFraction(o, cluster_obs) == <<o.spc, Len(cluster_obs)>>

SampleFromClustersArgs(cluster_samples) ==
  [NoCall EXCEPT !.op = "sample_from_clusters", !.seq = cluster_samples]

sample_from_clusters(i, cluster_samples) ==
  /\ CanCall(i, SampleFromClustersArgs(cluster_samples))
  /\ LET call == SampleFromClustersArgs(cluster_samples)
     IN Goto(i, [Frame(smp[i], call) EXCEPT !.pc = "from_clusters",
                                            !.clist = cluster_samples], <<>>)

\* One pass of the loop over cluster_samples.
sample_from_clusters_step(i) ==
  /\ smp[i].pc = "from_clusters"
  /\ IF smp[i].k < Len(smp[i].clist)
     THEN LET s == smp[i]
              cluster_obs == get_cluster_map(s.options)[s.clist[s.k + 1]]
          IN \E vs \in [1..ShuffleReads(cluster_obs) -> Raw] :
               /\ ReadOK(i, vs)
               /\ LET r == Subsample(cluster_obs, ClusterFraction(s.options, cluster_obs), vs)
                  IN IF r.threw
                     THEN Return(i, [s EXCEPT !.threw = TRUE], vs)
                     ELSE Goto(i, [s EXCEPT !.result = @ \o r.subsamples,
                                            !.k = @ + 1], vs)
     ELSE Return(i, smp[i], <<>>)

----------------------------------------------------------------------------------------------------------------------------------------------------
(* The callers of a sampler. A caller hands fresh out-vectors to every call: *)
(* release drops the vectors of the call that returned.                      *)

Fresh(i) == smp[i].pc = "idle" /\ smp[i].call = NoCall

release(i) ==
  /\ smp[i].pc = "idle"
  /\ smp[i].call # NoCall
  /\ Goto(i, Frame(smp[i], NoCall), <<>>)

Pools == SeqsUpTo(0..(MaxRows - 1), MaxPool)

SubsampleFractions == Fractions \cup {<<3, 2>>}

ClusterLists(o) ==
  {cl \in SeqsUpTo(Range(o.clusters), get_num_clusters(o)) : Distinct(cl)}

\* SamplingOptions(): no clusters, no weights
DefaultOptions == [clusters |-> <<>>, weights |-> <<>>, spc |-> 1]

LLIdle == [pc |-> "off"]

DrawCall(i) ==
  \E max \in 0..MaxDraw : \E skip \in SUBSET (0..(max - 1)) :
    \E n \in 0..(max - Cardinality(skip)) : draw(i, max, skip, n)

SubsampleCall(i) ==
  \E pool \in Pools : \E f \in SubsampleFractions : subsample(i, pool, f)

SampleClustersCall(i) == \E f \in Fractions : sample_clusters(i, f)

SampleFromClustersCall(i) ==
  \E cl \in ClusterLists(smp[i].options) : sample_from_clusters(i, cl)

\* draw on a sampler with default options
InitDraw ==
  /\ smp = [i \in {1} |-> NewSampler(0, DefaultOptions, 1)]
  /\ stream = <<>>
  /\ script = <<>>
  /\ ll = LLIdle

NextDraw ==
  \/ DrawCall(1)
  \/ draw_simple_step(1)
  \/ draw_knuth_step(1)
  \/ release(1)

SpecDraw == InitDraw /\ [][NextDraw]_vars

\* draw under fair random draws: the loops go on running, and a pass of a loop
\* that can change the state of the call is not put off for ever
SpecDrawFair ==
  /\ InitDraw
  /\ [][NextDraw]_vars
  /\ WF_vars(draw_simple_step(1))
  /\ WF_vars(draw_knuth_step(1))

\* subsample on a sampler with default options
NextSubsample ==
  \/ SubsampleCall(1)
  \/ release(1)

SpecSubsample == InitDraw /\ [][NextSubsample]_vars

\* cluster and row sampling under every SamplingOptions
Init ==
  /\ \E rows \in 1..MaxRows : \E o \in OptionSet(rows) :
       smp = [i \in {1} |-> NewSampler(0, o, rows)]
  /\ stream = <<>>
  /\ script = <<>>
  /\ ll = LLIdle

Next ==
  \/ SampleClustersCall(1)
  \/ draw_weighted_step(1)
  \/ SampleFromClustersCall(1)
  \/ sample_from_clusters_step(1)
  \/ release(1)

Spec == Init /\ [][Next]_vars

\* two samplers constructed with the same seed and options, each driven through
\* the same calls
DetOptions ==
  [clusters : {<<>>, <<0, 0>>, <<0, 1>>}, weights : {<<>>, <<1, 1>>}, spc : {1}]

DetCalls(o) ==
  {DrawArgs(4, {1}, 1), DrawArgs(2, {}, 1), SubsampleArgs(<<0, 1>>, <<1, 2>>),
   SampleClustersArgs(<<1, 1>>)}
  \cup {SampleFromClustersArgs(cl) : cl \in {c \in ClusterLists(o) : Len(c) = 1}}

InitDet ==
  /\ \E o \in DetOptions : \E seed \in Seeds :
       /\ smp = [i \in {1, 2} |-> NewSampler(seed, o, 2)]
       /\ script \in SeqsUpTo(DetCalls(o), MaxCalls)
  /\ stream = [s \in Seeds |-> <<>>]
  /\ ll = LLIdle

NextCall(i) == script[Len(smp[i].hist) + 1]

ScriptDraw(i) ==
  /\ Len(smp[i].hist) < Len(script) /\ NextCall(i).op = "draw"
  /\ draw(i, NextCall(i).max, NextCall(i).skip, NextCall(i).n)

ScriptSubsample(i) ==
  /\ Len(smp[i].hist) < Len(script) /\ NextCall(i).op = "subsample"
  /\ subsample(i, NextCall(i).seq, NextCall(i).frac)

ScriptSampleClusters(i) ==
  /\ Len(smp[i].hist) < Len(script) /\ NextCall(i).op = "sample_clusters"
  /\ sample_clusters(i, NextCall(i).frac)

ScriptSampleFromClusters(i) ==
  /\ Len(smp[i].hist) < Len(script) /\ NextCall(i).op = "sample_from_clusters"
  /\ sample_from_clusters(i, NextCall(i).seq)

NextDet ==
  \/ \E i \in DOMAIN smp : ScriptDraw(i)
  \/ \E i \in DOMAIN smp : draw_simple_step(i)
  \/ \E i \in DOMAIN smp : draw_knuth_step(i)
  \/ \E i \in DOMAIN smp : ScriptSubsample(i)
  \/ \E i \in DOMAIN smp : ScriptSampleClusters(i)
  \/ \E i \in DOMAIN smp : draw_weighted_step(i)
  \/ \E i \in DOMAIN smp : ScriptSampleFromClusters(i)
  \/ \E i \in DOMAIN smp : sample_from_clusters_step(i)
  \/ \E i \in DOMAIN smp : release(i)

SpecDet == InitDet /\ [][NextDet]_vars

----------------------------------------------------------------------------
(* Exact rational arithmetic: a number is <<numerator, denominator>> with a  *)
(* positive denominator, in lowest terms.                                    *)

Abs(x) == IF x < 0 THEN -x ELSE x

RECURSIVE Gcd(_, _)
Gcd(a, b) == IF b = 0 THEN a ELSE Gcd(b, a % b)

Rat(n, d) ==
  LET s == IF d < 0 THEN -1 ELSE 1
      g == Gcd(Abs(n), Abs(d))
  IN <<(s * n) \div g, (s * d) \div g>>

Zero == <<0, 1>>

One == <<1, 1>>

OfInt(k) == <<k, 1>>

\* the sum over the least common denominator
RAdd(a, b) ==
  LET g == Gcd(a[2], b[2])
  IN Rat(a[1] * (b[2] \div g) + b[1] * (a[2] \div g), (a[2] \div g) * b[2])

RSub(a, b) == RAdd(a, <<-b[1], b[2]>>)

\* the product, the common factors of numerators and denominators taken out first
RMul(a, b) ==
  LET g == Gcd(Abs(a[1]), Abs(b[2]))
      h == Gcd(Abs(b[1]), Abs(a[2]))
  IN Rat((a[1] \div g) * (b[1] \div h), (a[2] \div h) * (b[2] \div g))

RDiv(a, b) == RMul(a, <<b[2], b[1]>>)

RAbs(a) == <<Abs(a[1]), a[2]>>

RLess(a, b) ==
  LET g == Gcd(a[2], b[2])
  IN a[1] * (b[2] \div g) < b[1] * (a[2] \div g)

RECURSIVE RSumTo(_, _)
RSumTo(s, k) == IF k = 0 THEN Zero ELSE RAdd(RSumTo(s, k - 1), s[k])

\* the sum of a sequence of numbers
RSum(s) == RSumTo(s, Len(s))

\* IEEE doubles beyond the rationals: 0/0 is NaN, x/0 is infinite, NaN spreads
NaN == "NaN"

Inf == "Inf"

IsNum(a) == a # NaN /\ a # Inf

FAdd(a, b) == IF IsNum(a) /\ IsNum(b) THEN RAdd(a, b) ELSE NaN

FSub(a, b) == IF IsNum(a) /\ IsNum(b) THEN RSub(a, b) ELSE NaN

FMul(a, b) == IF IsNum(a) /\ IsNum(b) THEN RMul(a, b) ELSE NaN

FDiv(a, b) ==
  IF ~(IsNum(a) /\ IsNum(b)) THEN NaN
  ELSE IF b = Zero THEN (IF a = Zero THEN NaN ELSE Inf)
  ELSE RDiv(a, b)

----------------------------------------------------------------------------
(* Dense matrices (sequences of rows) and Eigen's LDLT on them *)

Rows(A) == Len(A)

Cols(A) == IF Len(A) = 0 THEN 0 ELSE Len(A[1])

\* a sequence of n entries, every entry computed once
Vec(n, F(_)) == [a \in 1..n |-> F(a)] \o <<>>

Mat(n, m, F(_, _)) == Vec(n, LAMBDA a : Vec(m, LAMBDA b : F(a, b)))

Trace(A) == RSum([a \in 1..Rows(A) |-> A[a][a]])

SwapEntries(v, a, b) == [v EXCEPT ![a] = v[b], ![b] = v[a]]

\* P A P^T for the transposition P of a and b
SwapSym(A, a, b) ==
  LET pi(x) == IF x = a THEN b ELSE IF x = b THEN a ELSE x
  IN Mat(Rows(A), Rows(A), LAMBDA r, c : A[pi(r)][pi(c)])

\* the first index k..n of the largest |A[x][x]|
BiggestInCorner(A, k) ==
  CHOOSE x \in k..Rows(A) :
    /\ \A y \in k..Rows(A) : ~RLess(RAbs(A[x][x]), RAbs(A[y][y]))
    /\ \A y \in k..(x - 1) : RLess(RAbs(A[y][y]), RAbs(A[x][x]))

\* One column of ldlt_inplace<Lower>::unblocked. f holds the symmetric matrix A
\* (rows and columns exchanged by the pivoting so far), the unit lower factor L,
\* the diagonal D and the transpositions tr.
LdltColumn(f, k) ==
  LET n == Rows(f.A)
      big == BiggestInCorner(f.A, k)
      A == IF big = k THEN f.A ELSE SwapSym(f.A, k, big)
      L == IF big = k THEN f.L
           ELSE Mat(n, n, LAMBDA r, c :
                      IF c < k /\ r = k THEN f.L[big][c]
                      ELSE IF c < k /\ r = big THEN f.L[k][c]
                      ELSE f.L[r][c])
      dot(r) == RSum([c \in 1..(k - 1) |-> RMul(RMul(L[r][c], f.D[c]), L[k][c])])
      Akk == RSub(A[k][k], dot(k))
      pivot_is_valid == Akk # Zero
  IN IF k = 1 /\ ~pivot_is_valid
     THEN [A |-> f.A, D |-> Vec(n, LAMBDA c : Zero), tr |-> Vec(n, LAMBDA c : c),
           L |-> Mat(n, n, LAMBDA r, c :
                    IF r = c THEN One ELSE IF c < r THEN f.A[r][c] ELSE Zero),
           stop |-> TRUE]
     ELSE [A |-> A, D |-> [f.D EXCEPT ![k] = Akk], tr |-> [f.tr EXCEPT ![k] = big],
           L |-> Mat(n, n, LAMBDA r, c :
                    IF c = k /\ r > k
                    THEN (IF pivot_is_valid
                          THEN RDiv(RSub(A[r][k], dot(r)), Akk)
                          ELSE RSub(A[r][k], dot(r)))
                    ELSE L[r][c]),
           stop |-> FALSE]

RECURSIVE LdltFrom(_, _)
LdltFrom(f, k) ==
  IF k > Rows(f.A) \/ f.stop THEN f ELSE LdltFrom(LdltColumn(f, k), k + 1)

Identity(n) == Mat(n, n, LAMBDA r, c : IF r = c THEN One ELSE Zero)

\* M.ldlt()
Ldlt(M) ==
  LET n == Rows(M)
      f0 == [A |-> M, L |-> Identity(n), D |-> Vec(n, LAMBDA c : Zero),
             tr |-> Vec(n, LAMBDA c : c), stop |-> FALSE]
  IN IF n <= 1
     THEN [f0 EXCEPT !.D = Vec(n, LAMBDA c : M[c][c])]
     ELSE LdltFrom(f0, 1)

RECURSIVE ApplyTr(_, _, _)
ApplyTr(v, tr, k) ==
  IF k > Len(tr) THEN v ELSE ApplyTr(SwapEntries(v, k, tr[k]), tr, k + 1)

RECURSIVE ApplyTrBack(_, _, _)
ApplyTrBack(v, tr, k) ==
  IF k = 0 THEN v ELSE ApplyTrBack(SwapEntries(v, k, tr[k]), tr, k - 1)

\* L y = v, L unit lower triangular
RECURSIVE ForwardFrom(_, _, _)
ForwardFrom(L, v, r) ==
  IF r > Len(v) THEN v
  ELSE ForwardFrom(L,
         [v EXCEPT ![r] = RSub(v[r], RSum([c \in 1..(r - 1) |-> RMul(L[r][c], v[c])]))],
         r + 1)

\* L^T x = v
RECURSIVE BackwardFrom(_, _, _)
BackwardFrom(L, v, r) ==
  IF r = 0 THEN v
  ELSE BackwardFrom(L,
         [v EXCEPT ![r] = RSub(v[r],
            RSum([c \in 1..(Len(v) - r) |-> RMul(L[r + c][r], v[r + c])]))],
         r - 1)

\* LDLT::solve: P^T L^-T D^+ L^-1 P b, a zero of D inverted to zero
LdltSolve(f, b) ==
  LET y == ForwardFrom(f.L, ApplyTr(b, f.tr, 1), 1)
      z == Vec(Len(b), LAMBDA r : IF f.D[r] = Zero THEN Zero ELSE RDiv(y[r], f.D[r]))
  IN ApplyTrBack(BackwardFrom(f.L, z, Len(b)), f.tr, Len(b))

\* the dot product of two vectors of numbers
Dot(u, v) == RSum([c \in 1..Len(u) |-> RMul(u[c], v[c])])

Column(A, c) == Vec(Rows(A), LAMBDA r : A[r][c])

\* M.colPivHouseholderQr(): the columns in pivoting order, each step taking the
\* first column whose part orthogonal to the columns already taken is longest,
\* up to the rank. q[k] is that orthogonal part of column piv[k].
RECURSIVE QrFrom(_, _)
QrFrom(A, f) ==
  LET n == Cols(A)
      k == Len(f.piv)
      q2 == Vec(k, LAMBDA j : Dot(f.q[j], f.q[j]))
      proj(v) == Vec(Rows(A), LAMBDA r :
                    RSub(v[r], RSum([j \in 1..k |->
                       RMul(RDiv(Dot(v, f.q[j]), q2[j]), f.q[j][r])])))
      rest == (1..n) \ Range(f.piv)
      part == Vec(n, LAMBDA c : IF c \in rest THEN proj(Column(A, c)) ELSE <<>>)
      norm2 == Vec(n, LAMBDA c : Dot(part[c], part[c]))
      best == CHOOSE c \in rest :
                /\ \A d \in rest : ~RLess(norm2[c], norm2[d])
                /\ \A d \in rest : d < c => RLess(norm2[d], norm2[c])
  IN IF rest = {} THEN f
     ELSE IF norm2[best] = Zero THEN f
     ELSE QrFrom(A, [piv |-> Append(f.piv, best), q |-> Append(f.q, part[best])])

ColPivHouseholderQr(A) == QrFrom(A, [piv |-> <<>>, q |-> <<>>])

\* R y = Q^T b on the pivoted columns, last row first
RECURSIVE QrBackFrom(_, _, _, _)
QrBackFrom(A, f, b, y) ==
  LET k == Len(f.piv) - Len(y)
      q2 == Dot(f.q[k], f.q[k])
      yk == RSub(RDiv(Dot(b, f.q[k]), q2),
                 RSum([m \in 1..Len(y) |->
                         RMul(RDiv(Dot(Column(A, f.piv[k + m]), f.q[k]), q2), y[m])]))
  IN IF k = 0 THEN y ELSE QrBackFrom(A, f, b, <<yk>> \o y)

\* ColPivHouseholderQR::solve: the solution on the pivoted columns of the rank,
\* zero on the others
QrSolve(A, f, b) ==
  LET y == QrBackFrom(A, f, b, <<>>)
  IN Vec(Cols(A), LAMBDA c :
        IF \E k \in 1..Len(f.piv) : f.piv[k] = c
        THEN y[CHOOSE k \in 1..Len(f.piv) : f.piv[k] = c]
        ELSE Zero)

----------------------------------------------------------------------------
(* LocalLinearPredictionStrategy. A strategy s holds the training covariates *)
(* data (one row per observation), the query row test, the outcomes Y, the   *)
(* forest weights of the query (a function on the samples of non-zero        *)
(* weight), the linear correction variables V, the lambdas, the ridge type,  *)
(* and for the variance the sample lists of the trees and the group size.    *)

MaxObs == 2

MaxLambdas == 2

WeightUnits == 2

MaxTrees == 4

ColumnIds == {0}

DataValues == {0, 2}

QueryValues == {0, 1}

Outcomes == {1, 2}

LambdaValues == {Zero, One}

GroupSizes == {2}

\* the samples of the weight map in iteration order
Indices(s) == SortedSeq(DOMAIN s.weights)

WeightsVec(s) == Vec(Len(Indices(s)), LAMBDA i : s.weights[Indices(s)[i]])

\* X(i, 0) = 1, X(i, j+1) = original_data(indices[i], V[j]) - test_data(sampleID, V[j])
DesignX(s) ==
  Mat(Len(Indices(s)), Len(s.V) + 1,
      LAMBDA i, j : IF j = 1 THEN One
                    ELSE OfInt(s.data[Indices(s)[i] + 1][s.V[j - 1] + 1]
                               - s.test[s.V[j - 1] + 1]))

\* Y(i) = observations(OUTCOME, indices[i])
OutcomeY(s) == Vec(Len(Indices(s)), LAMBDA i : OfInt(s.Y[Indices(s)[i] + 1]))

\* X^T diag(w) X
XtWX(X, w) ==
  Mat(Cols(X), Cols(X),
      LAMBDA a, b : RSum([i \in 1..Rows(X) |-> RMul(RMul(X[i][a], w[i]), X[i][b])]))

\* variant: the right-hand side without the weights, X^T Y
XtY(X, w, Y) ==
  Vec(Cols(X), LAMBDA a : RSum([i \in 1..Rows(X) |-> RMul(X[i][a], Y[i])]))

\* X^T diag(w) Y
XtWY(X, w, Y) ==
  Vec(Cols(X), LAMBDA a : RSum([i \in 1..Rows(X) |-> RMul(RMul(X[i][a], w[i]), Y[i])]))

AddToDiagonal(M, inc(_)) ==
  Mat(Rows(M), Rows(M), LAMBDA a, b : IF a = b /\ a >= 2 THEN RAdd(M[a][b], inc(a)) ELSE M[a][b])

\* the ridge penalty of the single-lambda predict, p the number of columns of
\* the test data: additional_regularization = M.trace()/p+1
RegularizeRidgeType(M, lambda, ridge_type, p) ==
  IF p = 0 THEN M
  ELSE IF ridge_type
  THEN LET additional_regularization == RAdd(RDiv(Trace(M), OfInt(p)), One)
       IN AddToDiagonal(M, LAMBDA a : RMul(lambda, additional_regularization))
  ELSE AddToDiagonal(M, LAMBDA a : RMul(lambda, M[a][a]))

\* the ridge penalty of predict and compute_variance
Regularize(M, lambda, use_unweighted_penalty, num_variables) ==
  IF use_unweighted_penalty
  THEN LET normalization == RDiv(Trace(M), OfInt(num_variables + 1))
       IN AddToDiagonal(M, LAMBDA a : RMul(lambda, normalization))
  ELSE AddToDiagonal(M, LAMBDA a : RMul(lambda, M[a][a]))

\* variant: the loop goes on with the matrix of the iteration before
LoopMatrixKept(M, M_stored) == M

\* M = M_stored at the head of each iteration of the lambda loop
LoopMatrix(M, M_stored) == M_stored

\* one iteration of the lambda loop of predict, on the loop state
\* f = [M, M_stored, i, predictions]
PredictIteration(s, f) ==
  LET lambda == s.lambdas[f.i + 1]
      X == DesignX(s)
      M == Regularize(LoopMatrix(f.M, f.M_stored), lambda, s.unweighted, Len(s.V))
      preds == LdltSolve(Ldlt(M), XtWY(X, WeightsVec(s), OutcomeY(s)))
  IN [f EXCEPT !.M = M, !.i = f.i + 1, !.predictions[f.i + 1] = preds[1]]

\* predict up to the lambda loop
PredictEntry(s, lambdas) ==
  LET M == XtWX(DesignX(s), WeightsVec(s))
  IN [M |-> M, M_stored |-> M, i |-> 0, predictions |-> Vec(Len(lambdas), LAMBDA i : Zero)]

RECURSIVE PredictLoop(_, _)
PredictLoop(s, f) ==
  IF f.i < Len(s.lambdas) THEN PredictLoop(s, PredictIteration(s, f)) ELSE f

\* what predict returns for the strategy s with its lambdas replaced
PredictWith(s, lambdas) ==
  LET s1 == [s EXCEPT !.lambdas = lambdas]
  IN PredictLoop(s1, PredictEntry(s1, lambdas)).predictions

\* the single-lambda predict: every observation is a row of X, with weight
\* zero when it is absent from the weight map, every column a regressor, and
\* X(i, j+1) = test_data(sampleID, j) - original_data(i, j)
PredictRidgeType(s) ==
  LET n == Len(s.data)
      p == Len(s.test)
      w == Vec(n, LAMBDA i : IF (i - 1) \in DOMAIN s.weights THEN s.weights[i - 1] ELSE Zero)
      X == Mat(n, p + 1, LAMBDA i, j : IF j = 1 THEN One
                                       ELSE OfInt(s.test[j - 1] - s.data[i][j - 1]))
      Y == Vec(n, LAMBDA i : OfInt(s.Y[i]))
      M0 == XtWX(X, w)
      M == RegularizeRidgeType(M0, s.lambdas[1], s.unweighted, p)
      preds == QrSolve(M, ColPivHouseholderQr(M), XtWY(X, w, Y))
  IN [M_stored |-> M0, M |-> M, predictions |-> <<preds[1]>>]

\* variant: the map keeps the sample itself, not its position in indices
SampleIndexMapOfSample(s) ==
  [o \in 0..(Len(s.data) - 1) |-> IF o \in DOMAIN s.weights THEN o ELSE -1]

\* sample_index_map: the position in indices of each observation, -1 if absent
SampleIndexMap(s) ==
  [o \in 0..(Len(s.data) - 1) |->
     IF o \in DOMAIN s.weights
     THEN (CHOOSE i \in 1..Len(Indices(s)) : Indices(s)[i] = o) - 1
     ELSE -1]

\* what a read of pseudo_residual outside its bounds may yield
WildValues == {Zero, One}

\* pseudo_residual(i); outside the vector the read yields some value u
ReadResidual(pseudo_residual, i, u) ==
  IF i \in 0..(Len(pseudo_residual) - 1) THEN pseudo_residual[i + 1] ELSE u

\* psi_1 of tree b: the mean pseudo-residual over the samples of the tree
Psi1(s, pseudo_residual, b, u) ==
  LET tree == s.samples_by_tree[b]
  IN FDiv(RSum([k \in 1..Len(tree) |->
                  ReadResidual(pseudo_residual, SampleIndexMap(s)[tree[k]], u)]),
          OfInt(Len(tree)))

\* good_group: no tree of the group has an empty sample list
GoodGroup(s, group) ==
  \A j \in 0..(s.ci_group_size - 1) : Len(s.samples_by_tree[group * s.ci_group_size + j + 1]) # 0

\* the body of the group loop for one group, on the sums a
GroupBody(s, pseudo_residual, a, group, u) ==
  LET g == s.ci_group_size
      psi == Vec(g, LAMBDA j : Psi1(s, pseudo_residual, group * g + j, u))
      group_psi == FDiv(RSum(psi), OfInt(g))
  IN IF ~GoodGroup(s, group) THEN a
     ELSE [num_good_groups |-> a.num_good_groups + 1,
           psi_squared |-> RAdd(a.psi_squared,
                                RSum([j \in 1..g |-> RMul(psi[j], psi[j])])),
           psi_grouped_squared |-> RAdd(a.psi_grouped_squared, RMul(group_psi, group_psi)),
           avg_score |-> RAdd(a.avg_score, group_psi)]

\* the lookups of the group loop for one group: each sample of each tree of a
\* good group with the index sample_index_map gives for it
GroupLookups(s, group) ==
  IF ~GoodGroup(s, group) THEN {}
  ELSE {[sample |-> s.samples_by_tree[group * s.ci_group_size + j][k],
         index |-> SampleIndexMap(s)[s.samples_by_tree[group * s.ci_group_size + j][k]]] :
          <<j, k>> \in {jk \in (1..s.ci_group_size) \X (1..Len(s.data)) :
                          jk[2] <= Len(s.samples_by_tree[group * s.ci_group_size + jk[1]])}}

\* the number of groups the group loop visits
NumGroups(s) == Len(s.samples_by_tree) \div s.ci_group_size

\* bayes_debiaser.debias: var_between - group_noise where that is positive,
\* zero where it is not, and no number where an argument is none
Debias(var_between, group_noise, num_good_groups) ==
  IF ~(IsNum(var_between) /\ IsNum(group_noise)) THEN NaN
  ELSE IF RLess(group_noise, var_between) THEN RSub(var_between, group_noise)
  ELSE Zero

\* theta, zeta and the pseudo-residuals of compute_variance, from the design
\* X, the outcomes Y, the weights w and the regularized M
PseudoResiduals(X, Y, w, M) ==
  LET ldlt == Ldlt(M)
      theta == LdltSolve(ldlt, XtWY(X, w, Y))
      e_one == Vec(Cols(X), LAMBDA a : IF a = 1 THEN One ELSE Zero)
      zeta == LdltSolve(ldlt, e_one)
  IN [theta |-> theta,
      pseudo_residual |-> Vec(Rows(X), LAMBDA i :
                            RMul(Dot(X[i], zeta), RSub(Y[i], Dot(X[i], theta))))]

\* variant: var_total averages psi_squared over the groups, not over the trees
VariancesPerGroup(a, ci_group_size) ==
  LET avg_score == FDiv(a.avg_score, OfInt(a.num_good_groups))
      var_between == FSub(FDiv(a.psi_grouped_squared, OfInt(a.num_good_groups)),
                          FMul(avg_score, avg_score))
      var_total == FSub(FDiv(a.psi_squared, OfInt(a.num_good_groups)),
                        FMul(avg_score, avg_score))
  IN [num_good_groups |-> a.num_good_groups, var_between |-> var_between,
      var_total |-> var_total,
      group_noise |-> FDiv(FSub(var_total, var_between), OfInt(ci_group_size - 1))]

\* the variances of compute_variance from the sums a of the group loop
Variances(a, ci_group_size) ==
  LET avg_score == FDiv(a.avg_score, OfInt(a.num_good_groups))
      var_between == FSub(FDiv(a.psi_grouped_squared, OfInt(a.num_good_groups)),
                          FMul(avg_score, avg_score))
      var_total == FSub(FDiv(a.psi_squared, OfInt(a.num_good_groups * ci_group_size)),
                        FMul(avg_score, avg_score))
  IN [num_good_groups |-> a.num_good_groups, var_between |-> var_between,
      var_total |-> var_total,
      group_noise |-> FDiv(FSub(var_total, var_between), OfInt(ci_group_size - 1))]

\* compute_variance up to the group loop
VarianceEntry(s) ==
  LET X == DesignX(s)
      M0 == XtWX(X, WeightsVec(s))
      M == Regularize(M0, s.lambdas[1], s.unweighted, Len(s.V))
      r == PseudoResiduals(X, OutcomeY(s), WeightsVec(s), M)
  IN [M_stored |-> M0, M |-> M, theta |-> r.theta,
      pseudo_residual |-> r.pseudo_residual, group |-> 0, lookups |-> {},
      sums |-> [num_good_groups |-> 0, psi_squared |-> Zero,
                psi_grouped_squared |-> Zero, avg_score |-> Zero]]

\* one iteration of the group loop
VarianceGroup(s, f, u) ==
  [f EXCEPT !.sums = GroupBody(s, f.pseudo_residual, f.sums, f.group, u),
            !.lookups = f.lookups \cup GroupLookups(s, f.group),
            !.group = f.group + 1]

\* compute_variance after the group loop: the locals and the returned value
VarianceReturn(s, f) ==
  LET v == Variances(f.sums, s.ci_group_size)
  IN [M_stored |-> f.M_stored, M |-> f.M, theta |-> f.theta,
      pseudo_residual |-> f.pseudo_residual, lookups |-> f.lookups, var |-> v,
      var_debiased |-> Debias(v.var_between, v.group_noise, v.num_good_groups)]

----------------------------------------------------------------------------
(* The calls on a strategy. ll.s is the strategy and its inputs, ll.f the    *)
(* locals of the call in progress or the values of the call that returned.   *)

CallLL(pc, f) ==
  /\ ll' = [ll EXCEPT !.pc = pc, !.f = f]
  /\ UNCHANGED <<smp, stream, script>>

\* predict, to the head of the lambda loop
predict_begin ==
  /\ ll.pc = "idle"
  /\ CallLL("predict", PredictEntry(ll.s, ll.s.lambdas))

\* predict, one iteration of the lambda loop
predict_lambda ==
  /\ ll.pc = "predict"
  /\ ll.f.i < Len(ll.s.lambdas)
  /\ CallLL("predict", PredictIteration(ll.s, ll.f))

\* predict, return predictions
predict_return ==
  /\ ll.pc = "predict"
  /\ ll.f.i = Len(ll.s.lambdas)
  /\ CallLL("predict_done", ll.f)

\* predict of the single-lambda strategy
predict_ridge_type ==
  /\ ll.pc = "idle"
  /\ CallLL("ridge_type_done", PredictRidgeType(ll.s))

\* compute_variance, to the head of the group loop
compute_variance_begin ==
  /\ ll.pc = "idle"
  /\ CallLL("variance", VarianceEntry(ll.s))

\* compute_variance, one iteration of the group loop
compute_variance_group ==
  /\ ll.pc = "variance"
  /\ ll.f.group < NumGroups(ll.s)
  /\ \E u \in WildValues : CallLL("variance", VarianceGroup(ll.s, ll.f, u))

\* compute_variance, from the end of the group loop to the return
compute_variance_return ==
  /\ ll.pc = "variance"
  /\ ll.f.group = NumGroups(ll.s)
  /\ CallLL("variance_done", VarianceReturn(ll.s, ll.f))

\* the caller takes the returned vector
discard ==
  /\ ll.pc \in {"predict_done", "ridge_type_done", "variance_done"}
  /\ CallLL("idle", <<>>)

\* the weight maps on n observations: a positive multiple of 1/WeightUnits
\* on each sample of the map, the weights summing to 1
WeightMaps(n) ==
  LET maps == UNION {[S -> 1..WeightUnits] : S \in (SUBSET (0..(n - 1))) \ {{}}}
      total(u) == RSum([i \in 1..Cardinality(DOMAIN u) |->
                          OfInt(u[SortedSeq(DOMAIN u)[i]])])
  IN {[o \in DOMAIN u |-> Rat(u[o], WeightUnits)] :
        u \in {m \in maps : total(m) = OfInt(WeightUnits)}}

NumCols == Cardinality(ColumnIds)

CorrectionVariables == {v \in SeqsUpTo(ColumnIds, NumCols) : Distinct(v)}

LambdaLists(n) == SeqsUpTo(LambdaValues, n) \ {<<>>}

\* the sample lists of T trees, each within the samples of the weight map
TreeLists(w, T) == [1..T -> {SortedSeq(S) : S \in SUBSET (DOMAIN w)}]

Queries == [1..NumCols -> QueryValues]

\* the query whose covariates are all zero
Origin == {[c \in 1..NumCols |-> 0]}

Strategies(n, queries, lambdas, T) ==
  [data : [1..n -> [1..NumCols -> DataValues]],
   test : queries,
   Y : [1..n -> Outcomes],
   weights : WeightMaps(n),
   V : CorrectionVariables,
   lambdas : lambdas,
   unweighted : BOOLEAN,
   ci_group_size : GroupSizes,
   trees : 0..T]

\* one group of trees, the leaf of each holding every sample of the weight map
OneGroup(w, g) == Vec(g, LAMBDA b : SortedSeq(DOMAIN w))

InitLL ==
  /\ smp = <<>>
  /\ stream = <<>>
  /\ script = <<>>
  /\ \E n \in 1..MaxObs : \E c \in Strategies(n, Queries, LambdaLists(MaxLambdas), 0) :
       ll = [pc |-> "idle", f |-> <<>>,
             s |-> [data |-> c.data, test |-> c.test, Y |-> c.Y, weights |-> c.weights,
                    V |-> c.V, lambdas |-> c.lambdas, unweighted |-> c.unweighted,
                    ci_group_size |-> c.ci_group_size,
                    samples_by_tree |-> OneGroup(c.weights, c.ci_group_size)]]

NextLL ==
  \/ predict_begin
  \/ predict_lambda
  \/ predict_return
  \/ predict_ridge_type
  \/ compute_variance_begin
  \/ compute_variance_group
  \/ compute_variance_return
  \/ discard

SpecLL == InitLL /\ [][NextLL]_vars

InitVar ==
  /\ smp = <<>>
  /\ stream = <<>>
  /\ script = <<>>
  /\ \E n \in 1..MaxObs : \E c \in Strategies(n, Origin, LambdaLists(1), MaxTrees) :
       \E trees \in TreeLists(c.weights, c.trees) :
         ll = [pc |-> "idle", f |-> <<>>,
               s |-> [data |-> c.data, test |-> c.test, Y |-> c.Y, weights |-> c.weights,
                      V |-> c.V, lambdas |-> c.lambdas, unweighted |-> c.unweighted,
                      ci_group_size |-> c.ci_group_size, samples_by_tree |-> trees]]

NextVar ==
  \/ compute_variance_begin
  \/ compute_variance_group
  \/ compute_variance_return
  \/ discard

SpecVar == InitVar /\ [][NextVar]_vars

----------------------------------------------------------------------------
(* The inputs of compute_variance as ForestPredictor builds them for a query: *)
(* samples_by_tree[t] is the leaf of the query in tree t, empty for a tree    *)
(* that does not take part, and the weight map is computed from these leaves. *)

\* the leaves of T trees over n observations
LeafLists(n, T) == [1..T -> {SortedSeq(S) : S \in SUBSET (0..(n - 1))}]

\* the weight map of the leaves: every sample of the leaf L of a tree gains
\* 1 / (|L| * number of trees that take part)
ComputeWeights(leaves) ==
  LET part == {b \in 1..Len(leaves) : leaves[b] # <<>>}
      gain(b, o) == IF o \in Range(leaves[b])
                    THEN Rat(1, Len(leaves[b]) * Cardinality(part))
                    ELSE Zero
  IN [o \in UNION {Range(leaves[b]) : b \in part} |->
        RSum([b \in 1..Len(leaves) |-> gain(b, o)])]

InitForest ==
  /\ smp = <<>>
  /\ stream = <<>>
  /\ script = <<>>
  /\ \E n \in 1..MaxObs, T \in 1..MaxTrees :
       \E leaves \in LeafLists(n, T), data \in [1..n -> [1..NumCols -> DataValues]],
          Y \in [1..n -> Outcomes], V \in CorrectionVariables,
          lambdas \in LambdaLists(1), unweighted \in BOOLEAN, g \in GroupSizes :
         /\ \E b \in 1..T : leaves[b] # <<>>
         /\ ll = [pc |-> "idle", f |-> <<>>,
                  s |-> [data |-> data, test |-> [c \in 1..NumCols |-> 0], Y |-> Y,
                         weights |-> ComputeWeights(leaves),
                         V |-> V, lambdas |-> lambdas, unweighted |-> unweighted,
                         ci_group_size |-> g, samples_by_tree |-> leaves]]

SpecForest == InitForest /\ [][NextVar]_vars

----------------------------------------------------------------------------
(* Claims about RandomSampler *)

Returned(i, op) ==
  smp[i].pc = "idle" /\ smp[i].call.op = op

Admissible(s) == (0..(s.max - 1)) \ s.skip

\* C1: for every max, skip within [0, max) and n <= max - |skip|, draw returns
\* exactly n pairwise distinct values of [0, max) \ skip, on the draw_simple
\* branch and on the draw_knuth branch, whatever the generator yields.
C1_DrawDistinctAdmissible ==
  \A i \in DOMAIN smp :
    Returned(i, "draw") =>
      /\ smp[i].branch = DrawDispatch(smp[i].call.max, smp[i].call.n)
      /\ Len(smp[i].result) = smp[i].call.n
      /\ Distinct(smp[i].result)
      /\ Range(smp[i].result) \subseteq Admissible(smp[i])

\* draw_simple has returned two values around a skipped one
C1_Witness ==
  /\ Returned(1, "draw")
  /\ smp[1].branch = "draw_simple"
  /\ smp[1].call.n = 2
  /\ \E x \in smp[1].skip : smp[1].result[1] < x /\ x < smp[1].result[2]

\* draw_knuth has returned some but not all admissible values
C1_WitnessKnuth ==
  /\ Returned(1, "draw")
  /\ smp[1].branch = "draw_knuth"
  /\ smp[1].skip # {}
  /\ smp[1].call.n >= 2
  /\ Range(smp[1].result) # Admissible(smp[1])

\* C2: for a fraction in [0, 1] the four-argument subsample returns (in, out)
\* with |in| = ceil(|pool| * fraction) and |out| = |pool| - |in|; in ++ out holds
\* every pool element with its multiplicity; pool is not modified.
C2_SubsampleSplitsPool ==
  \A i \in DOMAIN smp :
    (Returned(i, "subsample") /\ LeqOne(smp[i].call.frac)) =>
      LET pool == smp[i].call.seq
          f == smp[i].call.frac
      IN /\ ~smp[i].threw
         /\ Len(smp[i].result) = Ceil(<<Len(pool) * f[1], f[2]>>)
         /\ Len(smp[i].oob) = Len(pool) - Len(smp[i].result)
         /\ \A x \in Range(pool) \cup Range(smp[i].result \o smp[i].oob) :
              Count(smp[i].result \o smp[i].oob, x) = Count(pool, x)
         /\ smp[i].pool = pool

\* a pool of three with a repeated element, split 2 + 1 and not in pool order
C2_Witness ==
  /\ Returned(1, "subsample")
  /\ smp[1].call.frac = <<1, 2>>
  /\ Len(smp[1].call.seq) = 3
  /\ ~Distinct(smp[1].call.seq)
  /\ smp[1].result \o smp[1].oob # smp[1].call.seq

\* C3: sample_clusters returns exactly floor(N * sample_fraction) pairwise
\* distinct ids of [0, N), N the number of clusters when clustering is enabled
\* and the number of rows otherwise, with and without sample weights.
C3_SampleClustersDistinctIds ==
  \A i \in DOMAIN smp :
    Returned(i, "sample_clusters") =>
      LET N == NumSamples(smp[i])
          f == smp[i].call.frac
      IN /\ Len(smp[i].result) = Floor(<<N * f[1], f[2]>>)
         /\ Distinct(smp[i].result)
         /\ Range(smp[i].result) \subseteq 0..(N - 1)

\* C4: sample_from_clusters appends, for each selected cluster c, exactly
\* min(samples_per_cluster, |cluster c|) distinct rows of c, and no row of a
\* cluster that was not selected.
C4_SampleFromClustersPerCluster ==
  \A i \in DOMAIN smp :
    Returned(i, "sample_from_clusters") =>
      LET o == smp[i].options
          map == get_cluster_map(o)
          sel == Range(smp[i].call.seq)
      IN /\ ~smp[i].threw
         /\ Distinct(smp[i].result)
         /\ \A c \in sel :
              Cardinality({k \in 1..Len(smp[i].result) :
                             smp[i].result[k] \in Range(map[c])})
                = Min2(o.spc, Len(map[c]))
         /\ \A k \in 1..Len(smp[i].result) :
              \E c \in sel : smp[i].result[k] \in Range(map[c])

\* C5: two samplers constructed with the same seed and the same options and
\* driven through the same calls with the same arguments return identical
\* output vectors at every call.
C5_SameSeedSameOutputs ==
  \A i, j \in DOMAIN smp :
    (smp[i].seed = smp[j].seed /\ smp[i].options = smp[j].options) =>
      \A k \in 1..Min2(Len(smp[i].hist), Len(smp[j].hist)) :
        smp[i].hist[k].call = smp[j].hist[k].call =>
          smp[i].hist[k].out = smp[j].hist[k].out

\* draw_knuth has passed j times through its loop, with size_no_skip - j
\* candidates and n - i values to go
KnuthWithinBound(s) ==
  /\ s.j <= s.max - Cardinality(s.skip)
  /\ s.n - s.i <= s.max - Cardinality(s.skip) - s.j

InDraw == smp[1].pc \in {"draw_simple", "draw_knuth"}

DrawReturned ==
  /\ Returned(1, "draw")
  /\ smp[1].i = smp[1].n
  /\ Len(smp[1].result) = smp[1].n

\* C13: draw terminates for every max, skip within [0, max) and
\* n <= max - |skip|: draw_knuth makes at most max - |skip| passes through its
\* loop and has written exactly n values at the end, and under fair random
\* draws every call of draw, on the draw_simple branch and on the draw_knuth
\* branch, returns with n values.
C13_DrawTerminates ==
  /\ [](smp[1].branch = "draw_knuth" => KnuthWithinBound(smp[1]))
  /\ (InDraw ~> DrawReturned)

\* draw_simple has selected a value and has more to select, so that a draw
\* can be rejected, with a skipped value
C13_Witness ==
  /\ smp[1].pc = "draw_simple"
  /\ smp[1].i >= 1
  /\ smp[1].i < smp[1].n
  /\ smp[1].skip # {}

\* draw_knuth has returned after max - |skip| passes, some of them passed over
C13_WitnessKnuth ==
  /\ Returned(1, "draw")
  /\ smp[1].branch = "draw_knuth"
  /\ smp[1].skip # {}
  /\ smp[1].n >= 1
  /\ smp[1].j = smp[1].max - Cardinality(smp[1].skip)
  /\ smp[1].n < smp[1].j

----------------------------------------------------------------------------
(* Claims about LocalLinearPredictionStrategy *)

AllOutcomes(s, c) == \A i \in 1..Len(s.Y) : s.Y[i] = c

\* the weighted mean of the outcomes over the samples of the weight map
WeightedMean(s) ==
  LET o == SortedSeq(DOMAIN s.weights)
  IN RDiv(RSum([k \in 1..Len(o) |-> RMul(s.weights[o[k]], OfInt(s.Y[o[k] + 1]))]),
          RSum([k \in 1..Len(o) |-> s.weights[o[k]]]))

\* M + lambda * (trace(M) / (p + 1)) * diag(0, 1, ..., 1)
TracePenalty(M, lambda) ==
  Mat(Rows(M), Rows(M),
      LAMBDA a, b : IF a = b /\ a >= 2
                    THEN RAdd(M[a][b], RMul(lambda, RDiv(Trace(M), OfInt(Rows(M)))))
                    ELSE M[a][b])

\* C6: predict with a list of lambdas returns one entry per lambda, and entry
\* i is what predict returns for the single lambda lambdas[i] on the same
\* query and weights, whatever the other lambdas and their order.
C6_EntryIsSingleLambdaPredict ==
  ll.pc = "predict_done" =>
    /\ Len(ll.f.predictions) = Len(ll.s.lambdas)
    /\ \A i \in 1..Len(ll.s.lambdas) :
         ll.f.predictions[i] = PredictWith(ll.s, <<ll.s.lambdas[i]>>)[1]

\* two different lambdas with different predictions, on a design with a
\* correction variable
C6_Witness ==
  /\ ll.pc = "predict_done"
  /\ Len(ll.s.lambdas) = 2
  /\ Len(ll.s.V) = 1
  /\ ll.s.lambdas[1] # ll.s.lambdas[2]
  /\ ll.f.predictions[1] # ll.f.predictions[2]

\* C7: with the unweighted ridge penalty the regularized matrix is
\* M + lambda * (trace(M) / (p + 1)) * diag(0, 1, ..., 1), trace(M) taken on
\* the unregularized M, in the lambda loop of predict, in the single-lambda
\* predict and in compute_variance.
C7_TracePenaltyEverywhere ==
  ll.pc # "off" /\ ll.pc # "idle" /\ ll.s.unweighted =>
    /\ (ll.pc \in {"predict", "predict_done"} /\ ll.f.i >= 1) =>
         ll.f.M = TracePenalty(ll.f.M_stored, ll.s.lambdas[ll.f.i])
    /\ ll.pc \in {"ridge_type_done", "variance", "variance_done"} =>
         ll.f.M = TracePenalty(ll.f.M_stored, ll.s.lambdas[1])

\* C8: with no linear correction variable predict returns, for every lambda
\* and either ridge type, the weighted mean of the outcomes over the samples
\* of the weight map.
C8_NoCorrectionIsWeightedMean ==
  ll.pc = "predict_done" /\ ll.s.V = <<>> =>
    \A i \in 1..Len(ll.s.lambdas) : ll.f.predictions[i] = WeightedMean(ll.s)

\* two weighted samples of different outcomes, a positive lambda in the list
C8_Witness ==
  /\ ll.pc = "predict_done"
  /\ ll.s.V = <<>>
  /\ Cardinality(DOMAIN ll.s.weights) = 2
  /\ ll.s.Y[1] # ll.s.Y[2]
  /\ \E i \in 1..Len(ll.s.lambdas) : ll.s.lambdas[i] = One

\* C9: when every outcome is the same constant c, predict returns c in every
\* entry, and compute_variance with at least one good group has every
\* pseudo-residual zero and var_between zero.
C9_ConstantOutcome ==
  \A c \in Outcomes :
    ll.pc # "off" /\ AllOutcomes(ll.s, c) =>
      /\ ll.pc = "predict_done" =>
           \A i \in 1..Len(ll.s.lambdas) : ll.f.predictions[i] = OfInt(c)
      /\ ll.pc = "variance_done" /\ ll.f.var.num_good_groups >= 1 =>
           /\ \A i \in 1..Len(ll.f.pseudo_residual) : ll.f.pseudo_residual[i] = Zero
           /\ ll.f.var.var_between = Zero

\* C10: compute_variance returns NaN whenever fewer than two groups are good.
C10_FewGoodGroupsIsNaN ==
  ll.pc = "variance_done" /\ ll.f.var.num_good_groups < 2 => ll.f.var_debiased = NaN

\* the determinant of a matrix of at most two rows
Det(M) ==
  IF Rows(M) = 1 THEN M[1][1]
  ELSE RSub(RMul(M[1][1], M[2][2]), RMul(M[1][2], M[2][1]))

Singular(M) == Det(M) = Zero

\* the intercept of the solution of M0 * theta = rhs for a regular M0
Intercept(M0, rhs) ==
  IF Rows(M0) = 1 THEN RDiv(rhs[1], M0[1][1])
  ELSE RDiv(RSub(RMul(rhs[1], M0[2][2]), RMul(M0[1][2], rhs[2])), Det(M0))

\* the point estimate on a singular M: the intercept of the unpenalized
\* least-squares solution, the weighted mean where that is singular too
SingularPolicy(s, M0, rhs) ==
  IF Singular(M0) THEN WeightedMean(s) ELSE Intercept(M0, rhs)

\* C11: when the regularized M is singular, predict returns the intercept of
\* the unpenalized least-squares solution, or the weighted mean of the
\* outcomes when the unpenalized matrix is singular too, in the lambda loop
\* and in the single-lambda predict, and compute_variance returns NaN.
C11_SingularFallback ==
  /\ (ll.pc \in {"predict", "predict_done"} /\ ll.f.i >= 1 /\ Singular(ll.f.M)) =>
       ll.f.predictions[ll.f.i] =
         SingularPolicy(ll.s, ll.f.M_stored,
                        XtWY(DesignX(ll.s), WeightsVec(ll.s), OutcomeY(ll.s)))
  /\ (ll.pc = "ridge_type_done" /\ Singular(ll.f.M) /\ Singular(ll.f.M_stored)) =>
       ll.f.predictions[1] = WeightedMean(ll.s)
  /\ (ll.pc = "variance_done" /\ Singular(ll.f.M)) => ll.f.var_debiased = NaN

\* the trees of group b, groups counted from 0 and trees from 1
TreesOf(s, b) == {b * s.ci_group_size + j : j \in 1..s.ci_group_size}

\* the groups all of whose trees have a non-empty sample list
GoodGroups(s) ==
  {b \in 0..((Len(s.samples_by_tree) \div s.ci_group_size) - 1) :
     \A t \in TreesOf(s, b) : s.samples_by_tree[t] # <<>>}

\* psi_t: the mean of the pseudo-residuals r over the samples of tree t
TreePsi(s, r, t) ==
  LET tree == s.samples_by_tree[t]
      o == SortedSeq(DOMAIN s.weights)
      at(x) == CHOOSE i \in 1..Len(o) : o[i] = x
  IN RDiv(RSum([k \in 1..Len(tree) |-> r[at(tree[k])]]), OfInt(Len(tree)))

\* psi_b: the mean of psi_t over the trees of group b
GroupPsi(s, r, b) ==
  LET ts == SortedSeq(TreesOf(s, b))
  IN RDiv(RSum([k \in 1..Len(ts) |-> TreePsi(s, r, ts[k])]), OfInt(Len(ts)))

\* the mean of the squares of q, and the square of a
MeanOfSquares(q) == RDiv(RSum([k \in 1..Len(q) |-> RMul(q[k], q[k])]), OfInt(Len(q)))

Square(a) == RMul(a, a)

\* C12: num_good_groups counts exactly the groups of ci_group_size consecutive
\* trees whose trees all have a non-empty sample list, and where there is such
\* a group var_between = mean_b(psi_b^2) - (mean_b psi_b)^2 over the good
\* groups, var_total = mean_t(psi_t^2) - (mean_b psi_b)^2 over the trees of the
\* good groups, and group_noise = (var_total - var_between) / (ci_group_size - 1);
\* the trees of the other groups are in none of the sums.
C12_GoodGroupAccumulation ==
  ll.pc = "variance_done" =>
    LET s == ll.s
        r == ll.f.pseudo_residual
        good == SortedSeq(GoodGroups(s))
        trees == SortedSeq(UNION {TreesOf(s, b) : b \in GoodGroups(s)})
        psi_b == [k \in 1..Len(good) |-> GroupPsi(s, r, good[k])]
        psi_t == [k \in 1..Len(trees) |-> TreePsi(s, r, trees[k])]
        mean_b == RDiv(RSum(psi_b), OfInt(Len(good)))
    IN /\ ll.f.var.num_good_groups = Len(good)
       /\ Len(good) >= 1 =>
            /\ ll.f.var.var_between = RSub(MeanOfSquares(psi_b), Square(mean_b))
            /\ ll.f.var.var_total = RSub(MeanOfSquares(psi_t), Square(mean_b))
            /\ ll.f.var.group_noise =
                 RDiv(RSub(ll.f.var.var_total, ll.f.var.var_between),
                      OfInt(s.ci_group_size - 1))

\* a good group with trees of different means next to a group that has an
\* empty tree and a tree with samples
C12_Witness ==
  /\ ll.pc = "variance_done"
  /\ ll.f.var.num_good_groups = 1
  /\ Len(ll.s.samples_by_tree) = 4
  /\ \E b \in {0, 1} : b \notin GoodGroups(ll.s) /\
       \E t \in TreesOf(ll.s, b) : ll.s.samples_by_tree[t] # <<>>
  /\ ll.f.var.var_total # Zero

\* C14: every lookup of the group loop of compute_variance is valid: the
\* sample is less than the number of observations and sample_index_map gives
\* for it an index of [0, number of non-zero weights), never -1, for every
\* sample of every tree of a good group.
C14_LookupsValid ==
  ll.pc \in {"variance", "variance_done"} =>
    \A l \in ll.f.lookups :
      /\ l.sample < Len(ll.s.data)
      /\ l.index \in 0..(Cardinality(DOMAIN ll.s.weights) - 1)

\* a good group was read whose samples are not the whole data, the second
\* observation at index 0 of the weights
C14_Witness ==
  /\ ll.pc = "variance_done"
  /\ ll.f.var.num_good_groups >= 1
  /\ Len(ll.s.data) = 2
  /\ [sample |-> 1, index |-> 0] \in ll.f.lookups
  /\ 0 \notin DOMAIN ll.s.weights

====
